---- MODULE Spec2Model ----
(***************************************************************************)
(* A model of src/utils/llm_cli.py: the provider resolver get_cli_config,  *)
(* the response extractor extract_json_from_cli_response and the primary   *)
(* operation call_llm_cli with the child process it runs.                  *)
(*                                                                         *)
(* Text is a sequence of tokens; the string it stands for is the           *)
(* concatenation of the tokens.  A Python value is a record                *)
(* [k, n, s, m]: k is its type ("null" is None, "num" an int, "str" a str, *)
(* "obj" a dict), n the int, s the str, m the dict as a set of <<key,      *)
(* value>> pairs with one pair per key.                                    *)
(*                                                                         *)
(* json.loads ends in one of three ways: it returns a value, it raises     *)
(* JSONDecodeError, which every strategy of the extractor catches, or it   *)
(* raises another exception, ValueError for an int of more digits than the *)
(* interpreter converts and RecursionError for objects nested deeper than  *)
(* the interpreter recurses, which nothing in the module catches.          *)
(***************************************************************************)
EXTENDS Integers, Sequences, FiniteSets, TLC

\* ------------------------------------------------------------------ text

\* three backquotes, the markdown code fence
FENCE == "FENCE"
TAG == "json"
LB == "{"
RB == "}"
STR == "\"a\""
COLON == ":"
ONE == "1"
COMMA == ","
SP == " "
JUNK == "x"
NUL == "null"

\* the most digits int() converts: sys.int_info.default_max_str_digits
MaxStrDigits == 4300
\* a numeral of MaxStrDigits + 1 digits 1, as one token
LONG == "LONG"

\* the objects nested in a deep document, more than any interpreter recurses
NestDepth == 100000
\* {"a": written NestDepth times, as one token
OPENS == "OPENS"
\* } written NestDepth times, as one token
CLOSES == "CLOSES"

\* ---------------------------------------------------------------- state

\* what json.loads depends on besides its argument; the other variables are
\* declared with the operations
VARIABLES
  pc,              \* where the call is: "idle", "wait", "check", "extract",
                   \* "done"; for a function called on its own, "resolver",
                   \* "resolved", "extractor", "extracted"
  interpreter      \* the interpreter the program runs in and the stack under
                   \* the call: a member of Interpreters

\* ------------------------------------------------------- Python values

PyNone == [k |-> "null", n |-> 0, s |-> "", m |-> {}]
PyInt(i) == [k |-> "num", n |-> i, s |-> "", m |-> {}]
PyStr(x) == [k |-> "str", n |-> 0, s |-> x, m |-> {}]
PyDict(ms) == [k |-> "obj", n |-> 0, s |-> "", m |-> ms]

\* dict[key] = val: a repeated key keeps the last value
DictSet(ms, key, val) == {p \in ms : p[1] # key} \cup {<<key, val>>}

\* bool(v), as "if parsed:" takes it
Truthy(v) ==
  CASE v.k = "null" -> FALSE
    [] v.k = "num" -> v.n # 0
    [] v.k = "str" -> v.s # ""
    [] OTHER -> v.m # {}

\* ------------------------------------------------------------ json.loads

\* The interpreter: the recursion limit the scanner of json.loads is checked
\* against, whether the Python frames in use count against it, and the frames
\* on the stack where the program's function is called (1 at module level).
\* CPython 3.11 counts the Python frames and the objects the scanner is in
\* against sys.getrecursionlimit(), 1000; CPython 3.13 counts the scanner's C
\* calls alone against its C recursion limit, 10000, whatever the caller's
\* stack holds.
Interpreters ==
  {[limit |-> 1000, counts_frames |-> TRUE, frames |-> 1],
   [limit |-> 1000, counts_frames |-> TRUE, frames |-> 501],
   [limit |-> 10000, counts_frames |-> FALSE, frames |-> 1]}

\* json.loads runs inside call_llm_cli, not for the extractor called on its own
InCall == pc \notin {"extractor", "extracted"}

\* The objects json.loads can be inside one another where line 113 calls it.
\* With the frames counted, the limit less the caller's frames, less the five
\* of extract_json_from_cli_response, json.loads, decode, raw_decode and
\* scan_once, less the one of call_llm_cli; otherwise the limit less the two
\* C calls that lead to the scanner.
NestingLeft ==
  IF interpreter.counts_frames
    THEN interpreter.limit - interpreter.frames - (IF InCall THEN 6 ELSE 5)
    ELSE interpreter.limit - 2

\* JSONDecodeError
NoParse == [ok |-> FALSE, val |-> PyNone, nxt |-> 0, exc |-> ""]
Parsed(v, i) == [ok |-> TRUE, val |-> v, nxt |-> i, exc |-> ""]
\* an exception that is no JSONDecodeError
Raised(e) == [ok |-> FALSE, val |-> PyNone, nxt |-> 0, exc |-> e]

\* the digits of a token
Digits(tok) == IF tok = ONE THEN 1 ELSE IF tok = LONG THEN MaxStrDigits + 1 ELSE 0

RECURSIVE SkipWs(_, _)
SkipWs(s, i) == IF i <= Len(s) /\ s[i] = SP THEN SkipWs(s, i + 1) ELSE i

\* the digits of an int from position i on: acc the value of the digits read
\* so far, count how many they are.  int() raises ValueError on more than
\* MaxStrDigits digits, and the value of such a numeral is never used.
RECURSIVE ScanDigits(_, _, _, _)
ScanDigits(s, i, acc, count) ==
  IF i <= Len(s) /\ Digits(s[i]) > 0
    THEN ScanDigits(s, i + 1, IF s[i] = ONE THEN acc * 10 + 1 ELSE acc,
                    count + Digits(s[i]))
    ELSE IF count > MaxStrDigits THEN Raised("ValueError")
    ELSE Parsed(PyInt(acc), i)

\* the text of the string literal a token is
StrOf(tok) == "a"

RECURSIVE ScanValue(_, _, _)
RECURSIVE ScanMembers(_, _, _, _)

\* scan_once: the value that starts at position i, inside d objects.  An
\* object one deeper than NestingLeft raises RecursionError as it is
\* entered; OPENS enters NestDepth objects, more than any interpreter's limit.
ScanValue(s, i, d) ==
  IF i > Len(s) THEN NoParse
  ELSE CASE s[i] = NUL -> Parsed(PyNone, i + 1)
         [] Digits(s[i]) > 0 -> ScanDigits(s, i, 0, 0)
         [] s[i] = STR -> Parsed(PyStr(StrOf(s[i])), i + 1)
         [] s[i] = LB ->
              IF d + 1 > NestingLeft THEN Raised("RecursionError")
              ELSE LET j == SkipWs(s, i + 1)
                   IN  IF j <= Len(s) /\ s[j] = RB
                         THEN Parsed(PyDict({}), j + 1)
                         ELSE ScanMembers(s, j, {}, d + 1)
         [] s[i] = OPENS -> Raised("RecursionError")
         [] OTHER -> NoParse

\* JSONObject: the members of an object from the key at position i on; what
\* ends the scan of a member's value ends the object's
ScanMembers(s, i, ms, d) ==
  IF i > Len(s) \/ s[i] # STR THEN NoParse
  ELSE LET c == SkipWs(s, i + 1)
       IN  IF c > Len(s) \/ s[c] # COLON THEN NoParse
           ELSE LET v == ScanValue(s, SkipWs(s, c + 1), d)
                IN  IF ~v.ok THEN v
                    ELSE LET e == SkipWs(s, v.nxt)
                             ms2 == DictSet(ms, StrOf(s[i]), v.val)
                         IN  IF e > Len(s) THEN NoParse
                             ELSE IF s[e] = RB THEN Parsed(PyDict(ms2), e + 1)
                             ELSE IF s[e] = COMMA
                               THEN ScanMembers(s, SkipWs(s, e + 1), ms2, d)
                             ELSE NoParse

\* json.loads(s): one value, whitespace around it, nothing else
json_loads(s) ==
  LET v == ScanValue(s, SkipWs(s, 1), 0)
  IN  IF v.ok /\ SkipWs(s, v.nxt) # Len(s) + 1 THEN NoParse ELSE v

\* -------------------------------------------------- the response extractor

RECURSIVE LStrip(_)
LStrip(s) == IF s # <<>> /\ Head(s) = SP THEN LStrip(Tail(s)) ELSE s

RECURSIVE RStrip(_)
RStrip(s) ==
  IF s # <<>> /\ s[Len(s)] = SP THEN RStrip(SubSeq(s, 1, Len(s) - 1)) ELSE s

\* str.strip()
Strip(s) == RStrip(LStrip(s))

\* the least member of a non-empty set of numbers
Least(S) == CHOOSE x \in S : \A y \in S : x <= y
Greatest(S) == CHOOSE x \in S : \A y \in S : x >= y

NoMatch == [found |-> FALSE, group |-> <<>>]

\* re.search of line 118: FENCE json \s* ([\s\S]*?) \s* FENCE
JsonFenceSearch(s) ==
  LET starts == {i \in 1..Len(s) : /\ s[i] = FENCE
                                   /\ i + 1 <= Len(s) /\ s[i + 1] = TAG
                                   /\ \E j \in (i + 2)..Len(s) : s[j] = FENCE}
  IN  IF starts = {} THEN NoMatch
      ELSE LET i == Least(starts)
               j == Least({q \in (i + 2)..Len(s) : s[q] = FENCE})
           IN  [found |-> TRUE, group |-> Strip(SubSeq(s, i + 2, j - 1))]

\* re.search of line 126: FENCE \s* ([\s\S]*?) \s* FENCE
CodeFenceSearch(s) ==
  LET starts == {i \in 1..Len(s) : /\ s[i] = FENCE
                                   /\ \E j \in (i + 1)..Len(s) : s[j] = FENCE}
  IN  IF starts = {} THEN NoMatch
      ELSE LET i == Least(starts)
               j == Least({q \in (i + 1)..Len(s) : s[q] = FENCE})
           IN  [found |-> TRUE, group |-> Strip(SubSeq(s, i + 1, j - 1))]

\* the tokens that hold {, as their first character, and those that hold },
\* as their last
OpenBrace == {LB, OPENS}
CloseBrace == {RB, CLOSES}

\* content.find('{') and content.rfind('}'), 0 for Python's -1: the token the
\* character is in
Find(s, toks) ==
  IF \E i \in 1..Len(s) : s[i] \in toks
    THEN Least({i \in 1..Len(s) : s[i] \in toks}) ELSE 0
RFind(s, toks) ==
  IF \E i \in 1..Len(s) : s[i] \in toks
    THEN Greatest({i \in 1..Len(s) : s[i] \in toks}) ELSE 0

\* content[brace_start:brace_end + 1] when the guard of line 136 holds
BraceSpan(s) ==
  LET brace_start == Find(s, OpenBrace)
      brace_end == RFind(s, CloseBrace)
  IN  IF brace_start # 0 /\ brace_end # 0 /\ brace_end > brace_start
        THEN [found |-> TRUE, group |-> SubSeq(s, brace_start, brace_end)]
        ELSE NoMatch

\* what one strategy's try/except leaves: the end of its json.loads, and
\* JSONDecodeError when it has no candidate
TryLoads(match) == IF match.found THEN json_loads(match.group) ELSE NoParse

\* a strategy ends the function when its json.loads returns or raises anything
\* but JSONDecodeError
Ends(r) == r.ok \/ r.exc # ""

\* extract_json_from_cli_response: the value returned (exc is "") or the
\* exception raised, and the strategy that did it (0: the final "return None")
ExtractRun(text) ==
  LET content == Strip(text)
      r1 == json_loads(content)
      r2 == TryLoads(JsonFenceSearch(content))
      r3 == TryLoads(CodeFenceSearch(content))
      r4 == TryLoads(BraceSpan(content))
  IN  IF Ends(r1) THEN [val |-> r1.val, exc |-> r1.exc, by |-> 1]
      ELSE IF Ends(r2) THEN [val |-> r2.val, exc |-> r2.exc, by |-> 2]
      ELSE IF Ends(r3) THEN [val |-> r3.val, exc |-> r3.exc, by |-> 3]
      ELSE IF Ends(r4) THEN [val |-> r4.val, exc |-> r4.exc, by |-> 4]
      ELSE [val |-> PyNone, exc |-> "", by |-> 0]

extract_json_from_cli_response(text) ==
  LET run == ExtractRun(text) IN [val |-> run.val, exc |-> run.exc]

\* ------------------------------------------------- the provider resolver

\* An identifier is a sequence of characters.
UpperCase == <<"A", "B", "C", "D", "E", "F", "G", "H", "I", "J", "K", "L", "M",
               "N", "O", "P", "Q", "R", "S", "T", "U", "V", "W", "X", "Y", "Z">>
LowerCase == <<"a", "b", "c", "d", "e", "f", "g", "h", "i", "j", "k", "l", "m",
               "n", "o", "p", "q", "r", "s", "t", "u", "v", "w", "x", "y", "z">>

LowerChar(c) ==
  IF \E i \in 1..26 : UpperCase[i] = c
    THEN LowerCase[CHOOSE i \in 1..26 : UpperCase[i] = c] ELSE c

\* str.lower()
Lower(id) == [i \in 1..Len(id) |-> LowerChar(id[i])]

\* needle in hay
Contains(hay, needle) ==
  \E i \in 0..(Len(hay) - Len(needle)) :
    SubSeq(hay, i + 1, i + Len(needle)) = needle

KwAnthropic == <<"a", "n", "t", "h", "r", "o", "p", "i", "c">>
KwClaude == <<"c", "l", "a", "u", "d", "e">>
KwGoogle == <<"g", "o", "o", "g", "l", "e">>
KwGemini == <<"g", "e", "m", "i", "n", "i">>
KwOpenai == <<"o", "p", "e", "n", "a", "i">>
KwGpt == <<"g", "p", "t">>
KwCodex == <<"c", "o", "d", "e", "x">>

CLI_PROVIDERS ==
  [anthropic |-> [cmd |-> "claude", args |-> <<"-p">>, name |-> "Claude"],
   google |-> [cmd |-> "gemini", args |-> <<"-y", "-p">>, name |-> "Gemini"],
   openai |-> [cmd |-> "codex", args |-> <<"exec">>, name |-> "Codex"],
   default |-> [cmd |-> "claude", args |-> <<"-p">>, name |-> "Claude"]]

\* a resolver that tests the identifier as given, without lower()
get_cli_config_cased(model_provider) ==
  IF Contains(model_provider, KwAnthropic) \/ Contains(model_provider, KwClaude)
    THEN CLI_PROVIDERS.anthropic
  ELSE IF Contains(model_provider, KwGoogle) \/ Contains(model_provider, KwGemini)
    THEN CLI_PROVIDERS.google
  ELSE IF Contains(model_provider, KwOpenai) \/ Contains(model_provider, KwGpt)
            \/ Contains(model_provider, KwCodex)
    THEN CLI_PROVIDERS.openai
  ELSE CLI_PROVIDERS.default

get_cli_config(model_provider) ==
  LET provider_lower == Lower(model_provider)
  IN  IF Contains(provider_lower, KwAnthropic) \/ Contains(provider_lower, KwClaude)
        THEN CLI_PROVIDERS.anthropic
      ELSE IF Contains(provider_lower, KwGoogle) \/ Contains(provider_lower, KwGemini)
        THEN CLI_PROVIDERS.google
      ELSE IF Contains(provider_lower, KwOpenai) \/ Contains(provider_lower, KwGpt)
                \/ Contains(provider_lower, KwCodex)
        THEN CLI_PROVIDERS.openai
      ELSE CLI_PROVIDERS.default

\* ---------------------------------------------------- schema validation

\* A schema (a pydantic model class) is a set of fields
\* [name, type ("int" or "str"), optional]: an optional field is
\* Optional[type] = None.  An instance is the set of <<field, value>> pairs.
SchemaEmpty == {}
SchemaReqInt == {[name |-> "a", type |-> "int", optional |-> FALSE]}
SchemaOptInt == {[name |-> "a", type |-> "int", optional |-> TRUE]}
SchemaReqStr == {[name |-> "a", type |-> "str", optional |-> FALSE]}
Schemas == {SchemaEmpty, SchemaReqInt, SchemaOptInt, SchemaReqStr}

HasKey(ms, key) == \E p \in ms : p[1] = key
Lookup(ms, key) == (CHOOSE p \in ms : p[1] = key)[2]

\* whether pydantic takes v for field f
FieldAccepts(f, v) ==
  \/ f.type = "int" /\ v.k = "num"
  \/ f.type = "str" /\ v.k = "str"
  \/ f.optional /\ v.k = "null"

\* the validation of keyword arguments ms: keys that are no field are ignored
FieldOk(f, ms) == IF HasKey(ms, f.name) THEN FieldAccepts(f, Lookup(ms, f.name))
                  ELSE f.optional
FieldValue(f, ms) == IF HasKey(ms, f.name) THEN Lookup(ms, f.name) ELSE PyNone
Validates(schema, ms) == \A f \in schema : FieldOk(f, ms)
Instance(schema, ms) == {<<f.name, FieldValue(f, ms)>> : f \in schema}

\* ------------------------------------------------------------- outcomes

NoOutcome ==
  [kind |-> "none", exc |-> "", msg |-> "", cmd |-> "", secs |-> 0,
   text |-> <<>>, cut |-> 0, value |-> {}]
Returns(inst) == [NoOutcome EXCEPT !.kind = "return", !.value = inst]
Raises(exc, msg) == [NoOutcome EXCEPT !.kind = "raise", !.exc = exc, !.msg = msg]

MsgFailed == "CLI command failed: "
MsgNoJson == "Could not extract valid JSON from CLI response: "
MsgTimedOut == "CLI command timed out after "
MsgNotFound == "CLI tool not found"
MsgDigits == "Exceeds the limit (4300 digits) for integer string conversion"
MsgDepth == "maximum recursion depth exceeded while decoding a JSON object from a unicode string"

\* the exception of json.loads as the caller gets it
Propagates(exc) == Raises(exc, IF exc = "ValueError" THEN MsgDigits ELSE MsgDepth)

\* the characters of a token
CharLen(tok) ==
  CASE tok = FENCE -> 3
    [] tok = TAG -> 4
    [] tok = NUL -> 4
    [] tok = STR -> 3
    [] tok = LONG -> MaxStrDigits + 1
    [] tok = OPENS -> 5 * NestDepth
    [] tok = CLOSES -> NestDepth
    [] OTHER -> 1

PreviewChars == 500

\* text[:n] as the tokens that fit whole and the characters kept of the next
RECURSIVE Slice(_, _)
Slice(text, n) ==
  IF text = <<>> \/ n = 0 THEN [text |-> <<>>, cut |-> 0]
  ELSE IF CharLen(Head(text)) > n THEN [text |-> <<>>, cut |-> n]
  ELSE LET rest == Slice(Tail(text), n - CharLen(Head(text)))
       IN  [text |-> <<Head(text)>> \o rest.text, cut |-> rest.cut]

\* pydantic_model(**parsed)
Construct(schema, parsed) ==
  IF parsed.k # "obj" THEN Raises("TypeError", "argument after ** must be a mapping")
  ELSE IF Validates(schema, parsed.m) THEN Returns(Instance(schema, parsed.m))
  ELSE Raises("ValidationError", "validation error")

\* lines 87-91: "if parsed:" is the truth value of parsed
Materialize(schema, parsed, text) ==
  IF Truthy(parsed) THEN Construct(schema, parsed)
  ELSE LET pre == Slice(text, PreviewChars)
       IN  [Raises("Exception", MsgNoJson) EXCEPT !.text = pre.text, !.cut = pre.cut]

\* --------------------------------------------------------------- inputs

MaxLen == 5
MaxIdParts == 2
MaxTimeout == 2
MaxCalls == 2

\* the words a text is made of: the tokens, and the tagged fence as one word
Words ==
  {<<FENCE>>, <<FENCE, TAG>>, <<LB>>, <<RB>>, <<STR>>, <<COLON>>, <<COMMA>>,
   <<ONE>>, <<NUL>>, <<SP>>, <<JUNK>>, <<LONG>>, <<OPENS>>, <<CLOSES>>}

\* the text a sequence of words spells
RECURSIVE Flatten(_)
Flatten(ws) == IF ws = <<>> THEN <<>> ELSE Head(ws) \o Flatten(Tail(ws))

Fragments ==
  {<<"a", "n", "t", "h", "r", "o", "p", "i", "c">>,
   <<"A", "N", "T", "H", "R", "O", "P", "I", "C">>,
   <<"C", "l", "a", "u", "d", "e">>,
   <<"g", "o", "o", "g", "l", "e">>,
   <<"G", "e", "m", "i", "n", "i">>,
   <<"O", "p", "e", "n", "A", "I">>,
   <<"g", "p", "t">>,
   <<"G", "P", "T">>,
   <<"c", "o", "d", "e", "x">>,
   <<"g">>,
   <<"p", "t">>,
   <<"-">>,
   <<"3">>,
   <<"x">>}

RECURSIVE Joined(_)
Joined(n) ==
  IF n = 0 THEN {<<>>}
  ELSE LET shorter == Joined(n - 1)
       IN  shorter \cup {a \o f : a \in shorter, f \in Fragments}

\* every identifier of at most MaxIdParts fragments
Identifiers == Joined(MaxIdParts)

\* the identifiers call_llm_cli is called with
CallProviders == {<<"C", "l", "a", "u", "d", "e">>, <<"g", "e", "m", "i", "n", "i">>,
                  <<"G", "P", "T">>, <<"x">>}

\* the executables a host may have on its PATH
Commands == {"claude", "gemini", "codex"}

\* what a child process may write to its standard output: a JSON document, a
\* malformed one, or one beyond what the interpreter's json.loads takes, bare,
\* padded, fenced or inside prose
\* json.dumps(v)
RECURSIVE Dumps(_)
Dumps(v) ==
  CASE v.k = "null" -> <<NUL>>
    [] v.k = "num" -> IF v.n < 10 THEN <<ONE>> ELSE Dumps(PyInt(v.n \div 10)) \o <<ONE>>
    [] v.k = "str" -> <<STR>>
    [] OTHER -> IF v.m = {} THEN <<LB, RB>>
                ELSE <<LB, STR, COLON, SP>> \o Dumps(Lookup(v.m, "a")) \o <<RB>>

DocValues ==
  {PyDict({}), PyDict({<<"a", PyInt(1)>>}), PyDict({<<"a", PyStr("a")>>}),
   PyDict({<<"a", PyNone>>}), PyInt(1), PyStr("a"), PyNone}
Documents ==
  {Dumps(v) : v \in DocValues}
  \cup {<<LB, JUNK, COLON, SP, ONE, COMMA, RB>>}
  \cup {<<LONG>>, <<LB, STR, COLON, SP, LONG, RB>>, <<OPENS, ONE, CLOSES>>}
Stdouts ==
  {<<>>, <<JUNK>>}
  \cup Documents
  \cup {<<SP>> \o d \o <<SP>> : d \in Documents}
  \cup {<<FENCE, TAG, SP>> \o d \o <<SP, FENCE>> : d \in Documents}
  \cup {<<FENCE, SP>> \o d \o <<SP, FENCE>> : d \in Documents}
  \cup {<<JUNK, SP>> \o d \o <<SP, JUNK>> : d \in Documents}
Stderrs == {<<>>, <<JUNK>>}
ReturnCodes == {0, 1}

\* ---------------------------------------------------------------- state

VARIABLES
  host,            \* the executables on the PATH
  model_provider,  \* the arguments of the call
  pydantic_model,
  timeout,
  cli_config,      \* line 58
  child,           \* the child process: "none", "running", "exited", "killed"
  elapsed,         \* seconds since the child was started
  result,          \* the CompletedProcess of line 73
  response_text,   \* line 83; the argument of the extractor
  parsed,          \* line 86; what the extractor returned
  outcome,         \* what the call returned or raised
  runs,            \* subprocess.run calls of this call
  spawned,         \* child processes this call started
  extractions,     \* extractor calls of this call
  calls,           \* calls that returned to the caller
  children         \* child processes started by all calls

vars == <<pc, host, interpreter, model_provider, pydantic_model, timeout, cli_config, child,
          elapsed, result, response_text, parsed, outcome, runs, spawned,
          extractions, calls, children>>

NoResult == [returncode |-> 0, stdout |-> <<>>, stderr |-> <<>>]
NoConfig == [cmd |-> "", args |-> <<>>, name |-> ""]

\* the state of a call before it starts
Fresh ==
  /\ model_provider = <<>>
  /\ pydantic_model = {}
  /\ timeout = 0
  /\ cli_config = NoConfig
  /\ child = "none"
  /\ elapsed = 0
  /\ result = NoResult
  /\ response_text = <<>>
  /\ parsed = PyNone
  /\ outcome = NoOutcome
  /\ runs = 0
  /\ spawned = 0
  /\ extractions = 0

Init ==
  /\ pc = "idle"
  /\ host \in SUBSET Commands
  /\ interpreter \in Interpreters
  /\ calls = 0
  /\ children = 0
  /\ Fresh

\* a lookup that finds every executable
FoundAlways(cmd, path) == TRUE

\* Popen: the executable is looked up on the PATH
Found(cmd, path) == cmd \in path

\* a timeout that leaves the child as it is
KillSkipped(c) == c

\* process.kill(); process.wait() of subprocess.run on TimeoutExpired
Kill(c) == "killed"

\* call_llm_cli, lines 58-78: the profile, the command and the start of the
\* child; FileNotFoundError is caught at line 95
Call(p, schema, t) ==
  /\ pc = "idle"
  /\ calls < MaxCalls
  /\ model_provider' = p
  /\ pydantic_model' = schema
  /\ timeout' = t
  /\ LET config == get_cli_config(p)
     IN  /\ cli_config' = config
         /\ IF Found(config.cmd, host)
              THEN /\ child' = "running"
                   /\ spawned' = spawned + 1
                   /\ children' = children + 1
                   /\ outcome' = NoOutcome
                   /\ pc' = "wait"
              ELSE /\ child' = child
                   /\ spawned' = spawned
                   /\ children' = children
                   /\ outcome' = [Raises("Exception", MsgNotFound)
                                    EXCEPT !.cmd = config.cmd]
                   /\ pc' = "done"
  /\ runs' = runs + 1
  /\ UNCHANGED <<host, interpreter, elapsed, result, response_text, parsed, extractions, calls>>

\* a second of the child's run
Tick ==
  /\ pc = "wait"
  /\ child = "running"
  /\ elapsed < timeout
  /\ elapsed' = elapsed + 1
  /\ UNCHANGED <<pc, host, interpreter, model_provider, pydantic_model, timeout, cli_config,
                 child, result, response_text, parsed, outcome, runs, spawned,
                 extractions, calls, children>>

\* the child ends within the timeout: subprocess.run returns
ChildExit(rc, out, err) ==
  /\ pc = "wait"
  /\ child = "running"
  /\ elapsed < timeout
  /\ child' = "exited"
  /\ result' = [returncode |-> rc, stdout |-> out, stderr |-> err]
  /\ pc' = "check"
  /\ UNCHANGED <<host, interpreter, model_provider, pydantic_model, timeout, cli_config,
                 elapsed, response_text, parsed, outcome, runs, spawned,
                 extractions, calls, children>>

\* a timeout that starts the command again
TimeoutExpiredRetry ==
  /\ pc = "wait"
  /\ child = "running"
  /\ elapsed = timeout
  /\ runs < 2
  /\ runs' = runs + 1
  /\ spawned' = spawned + 1
  /\ children' = children + 1
  /\ elapsed' = 0
  /\ UNCHANGED <<pc, host, interpreter, model_provider, pydantic_model, timeout, cli_config,
                 child, result, response_text, parsed, outcome, extractions,
                 calls>>

\* the timeout passes: subprocess.run kills the child, waits for it and raises
\* TimeoutExpired, caught at line 93
TimeoutExpired ==
  /\ pc = "wait"
  /\ child = "running"
  /\ elapsed = timeout
  /\ child' = Kill(child)
  /\ outcome' = [Raises("Exception", MsgTimedOut) EXCEPT !.secs = timeout]
  /\ pc' = "done"
  /\ UNCHANGED <<host, interpreter, model_provider, pydantic_model, timeout, cli_config,
                 elapsed, result, response_text, parsed, runs, spawned,
                 extractions, calls, children>>

\* an exit status that is never looked at
FailedIgnored(res) == FALSE

\* line 80
Failed(res) == res.returncode # 0

\* lines 80-83
CheckExit ==
  /\ pc = "check"
  /\ IF Failed(result)
       THEN /\ outcome' = [Raises("Exception", MsgFailed) EXCEPT !.text = result.stderr]
            /\ response_text' = response_text
            /\ pc' = "done"
       ELSE /\ response_text' = Strip(result.stdout)
            /\ outcome' = outcome
            /\ pc' = "extract"
  /\ UNCHANGED <<host, interpreter, model_provider, pydantic_model, timeout, cli_config,
                 child, elapsed, result, parsed, runs, spawned, extractions,
                 calls, children>>

\* lines 86-91; an exception of the extractor is none that lines 93-96 catch
ExtractAndMaterialize ==
  /\ pc = "extract"
  /\ LET run == extract_json_from_cli_response(response_text)
     IN  IF run.exc # ""
           THEN /\ parsed' = parsed
                /\ outcome' = Propagates(run.exc)
           ELSE /\ parsed' = run.val
                /\ outcome' = Materialize(pydantic_model, run.val, response_text)
  /\ extractions' = extractions + 1
  /\ pc' = "done"
  /\ UNCHANGED <<host, interpreter, model_provider, pydantic_model, timeout, cli_config,
                 child, elapsed, result, response_text, runs, spawned, calls,
                 children>>

\* the caller has the outcome; the next call starts afresh
Return ==
  /\ pc = "done"
  /\ pc' = "idle"
  /\ calls' = calls + 1
  /\ model_provider' = <<>>
  /\ pydantic_model' = {}
  /\ timeout' = 0
  /\ cli_config' = NoConfig
  /\ child' = "none"
  /\ elapsed' = 0
  /\ result' = NoResult
  /\ response_text' = <<>>
  /\ parsed' = PyNone
  /\ outcome' = NoOutcome
  /\ runs' = 0
  /\ spawned' = 0
  /\ extractions' = 0
  /\ UNCHANGED <<host, interpreter, children>>

Next ==
  \/ \E p \in CallProviders, schema \in Schemas, t \in 1..MaxTimeout :
       Call(p, schema, t)
  \/ Tick
  \/ \E rc \in ReturnCodes, out \in Stdouts, err \in Stderrs : ChildExit(rc, out, err)
  \/ TimeoutExpired
  \/ CheckExit
  \/ ExtractAndMaterialize
  \/ Return

Spec == Init /\ [][Next]_vars

\* What the scheduling gives: the clock runs while a child is waited for, and
\* subprocess.run acts when the timeout has passed.  Nothing makes a child end.
FairSpec == Spec /\ WF_vars(Tick) /\ WF_vars(TimeoutExpired)

\* ------------------------------------------- get_cli_config on its own

InitResolver ==
  /\ pc = "resolver"
  /\ host = {}
  /\ interpreter \in Interpreters
  /\ calls = 0
  /\ children = 0
  /\ model_provider \in Identifiers
  /\ pydantic_model = {}
  /\ timeout = 0
  /\ cli_config = NoConfig
  /\ child = "none"
  /\ elapsed = 0
  /\ result = NoResult
  /\ response_text = <<>>
  /\ parsed = PyNone
  /\ outcome = NoOutcome
  /\ runs = 0
  /\ spawned = 0
  /\ extractions = 0

Resolve ==
  /\ pc = "resolver"
  /\ cli_config' = get_cli_config(model_provider)
  /\ pc' = "resolved"
  /\ UNCHANGED <<host, interpreter, model_provider, pydantic_model, timeout, child, elapsed,
                 result, response_text, parsed, outcome, runs, spawned,
                 extractions, calls, children>>

SpecResolver == InitResolver /\ [][Resolve]_vars

\* --------------------------- extract_json_from_cli_response on its own
\* on every text of at most MaxLen words

InitExtractor ==
  /\ pc = "extractor"
  /\ host = {}
  /\ interpreter \in Interpreters
  /\ calls = 0
  /\ children = 0
  /\ model_provider = <<>>
  /\ pydantic_model = {}
  /\ timeout = 0
  /\ cli_config = NoConfig
  /\ child = "none"
  /\ elapsed = 0
  /\ result = NoResult
  /\ \E n \in 0..MaxLen : \E ws \in [1..n -> Words] : response_text = Flatten(ws)
  /\ parsed = PyNone
  /\ outcome = NoOutcome
  /\ runs = 0
  /\ spawned = 0
  /\ extractions = 0

Extract ==
  /\ pc = "extractor"
  /\ LET run == extract_json_from_cli_response(response_text)
     IN  IF run.exc # ""
           THEN /\ parsed' = parsed
                /\ outcome' = Propagates(run.exc)
           ELSE /\ parsed' = run.val
                /\ outcome' = outcome
  /\ extractions' = 1
  /\ pc' = "extracted"
  /\ UNCHANGED <<host, interpreter, model_provider, pydantic_model, timeout,
                 cli_config, child, elapsed, result, response_text, runs,
                 spawned, calls, children>>

SpecExtractor == InitExtractor /\ [][Extract]_vars

\* ------------------------------------------------------------- the claims

\* the failure kind of an outcome: the exception class and the message tell
\* the kinds apart
KindOf(o) ==
  CASE o.kind # "raise" -> "none"
    [] o.exc = "Exception" /\ o.msg = MsgNotFound -> "ToolNotFound"
    [] o.exc = "Exception" /\ o.msg = MsgTimedOut -> "Timeout"
    [] o.exc = "Exception" /\ o.msg = MsgFailed -> "ExecutionFailed"
    [] o.exc = "Exception" /\ o.msg = MsgNoJson -> "ExtractionFailed"
    [] o.exc = "ValidationError" -> "SchemaMismatch"
    [] OTHER -> "Other"

FiveKinds ==
  {"ToolNotFound", "Timeout", "ExecutionFailed", "ExtractionFailed", "SchemaMismatch"}

\* the candidate of each strategy, read off the text as it was given: the
\* fenced blocks as pairs of fence positions with no fence between them
TaggedBlocks(s) ==
  {b \in (1..Len(s)) \X (1..Len(s)) :
     /\ s[b[1]] = FENCE /\ b[1] + 1 <= Len(s) /\ s[b[1] + 1] = TAG
     /\ b[2] > b[1] + 1 /\ s[b[2]] = FENCE
     /\ \A k \in (b[1] + 2)..(b[2] - 1) : s[k] # FENCE}
GenericBlocks(s) ==
  {b \in (1..Len(s)) \X (1..Len(s)) :
     /\ s[b[1]] = FENCE /\ b[2] > b[1] /\ s[b[2]] = FENCE
     /\ \A k \in (b[1] + 1)..(b[2] - 1) : s[k] # FENCE}
FirstBlock(bs) == CHOOSE b \in bs : \A c \in bs : b[1] <= c[1]
Opens(s) == {i \in 1..Len(s) : s[i] \in OpenBrace}
Closes(s) == {i \in 1..Len(s) : s[i] \in CloseBrace}

\* the candidates of strategy n: one text, or none
Candidates(n, s) ==
  CASE n = 1 -> {s}
    [] n = 2 -> IF TaggedBlocks(s) = {} THEN {}
                ELSE LET b == FirstBlock(TaggedBlocks(s))
                     IN  {SubSeq(s, b[1] + 2, b[2] - 1)}
    [] n = 3 -> IF GenericBlocks(s) = {} THEN {}
                ELSE LET b == FirstBlock(GenericBlocks(s))
                     IN  {SubSeq(s, b[1] + 1, b[2] - 1)}
    [] OTHER -> IF Opens(s) = {} \/ Closes(s) = {} THEN {}
                ELSE IF Greatest(Closes(s)) > Least(Opens(s))
                  THEN {SubSeq(s, Least(Opens(s)), Greatest(Closes(s)))}
                ELSE {}

\* strategy n succeeds: its candidate exists and parses
Succeeds(n, s) == \E c \in Candidates(n, s) : json_loads(c).ok
ValueOf(n, s) == json_loads(CHOOSE c \in Candidates(n, s) : TRUE).val
Winners(s) == {n \in 1..4 : Succeeds(n, s)}

\* what made a call fail, as a kind
CauseOf ==
  IF spawned = 0 THEN "ToolNotFound"
  ELSE IF child = "killed" THEN "Timeout"
  ELSE IF result.returncode # 0 THEN "ExecutionFailed"
  ELSE IF Winners(result.stdout) = {} THEN "ExtractionFailed"
  ELSE "SchemaMismatch"

\* C1: every failed call surfaces the one of the five kinds that its cause
\* has: ToolNotFound for a missing executable, Timeout for a child that ran
\* out of time, ExecutionFailed for a non-zero exit, ExtractionFailed when no
\* strategy recovered a value, SchemaMismatch when the recovered value does
\* not fit the schema; no other failure reaches the caller.
C1_FiveDistinctKinds ==
  pc = "done" /\ outcome.kind = "raise" =>
    KindOf(outcome) \in FiveKinds /\ KindOf(outcome) = CauseOf

\* the timeout has passed with the child still running
Expired == pc = "wait" /\ child = "running" /\ elapsed = timeout
TimedOut(o) == KindOf(o) = "Timeout" /\ o.secs = timeout

\* C2: a child that has not ended when the timeout passes always leads to a
\* Timeout failure: the next step of the call raises it with the child
\* killed, that step is always taken, the wait for a child always ends, and
\* a call that ends without its child having exited ends with Timeout and
\* the child killed, never with a value or another kind.
C2_TimeoutAlwaysSurfaces ==
  /\ [][Expired => pc' = "done" /\ TimedOut(outcome') /\ child' = "killed"]_vars
  /\ [](pc = "done" /\ child # "exited" /\ spawned > 0 =>
          TimedOut(outcome) /\ child = "killed")
  /\ (Expired ~> (pc = "done" /\ TimedOut(outcome) /\ child = "killed"))
  /\ (pc = "wait" ~> pc # "wait")
C2_Witness ==
  pc = "done" /\ TimedOut(outcome) /\ child = "killed" /\ elapsed = timeout
    /\ timeout = MaxTimeout

\* C3: a call whose resolved executable is not on the host ends at once with
\* ToolNotFound carrying the executable name: no child, no ExecutionFailed,
\* no wait and no extraction.
C3_MissingExecutable ==
  runs > 0 /\ cli_config.cmd \notin host =>
    /\ pc = "done"
    /\ KindOf(outcome) = "ToolNotFound"
    /\ outcome.cmd = cli_config.cmd
    /\ child = "none" /\ spawned = 0 /\ extractions = 0
C3_Witness ==
  pc = "done" /\ KindOf(outcome) = "ToolNotFound" /\ outcome.cmd = "gemini"
    /\ host = {"claude", "codex"}

\* C4 as stated: every call has spawned exactly one child by the time it
\* returns or raises, and that child is no longer running.
C4_ExactlyOneChildPerCall ==
  pc = "done" => spawned = 1 /\ child # "running"

\* the calls made so far
Started == calls + (IF pc = "idle" THEN 0 ELSE 1)

\* C4 as amended: every call runs subprocess.run exactly once, on every
\* path; that starts exactly one child when the executable is on the host
\* and none when it is missing; when the call returns or raises its child is
\* not running; and over a sequence of calls there is one child per call
\* that found its executable.
C4_OneRunPerCall ==
  /\ pc # "idle" =>
       /\ runs = 1
       /\ spawned = (IF cli_config.cmd \in host THEN 1 ELSE 0)
  /\ pc = "done" => child # "running"
  /\ children <= Started
  /\ host = Commands => children = Started
  /\ host = {} => children = 0
C4_Witness ==
  pc = "done" /\ calls = MaxCalls - 1 /\ children = MaxCalls /\ spawned = 1
    /\ KindOf(outcome) = "SchemaMismatch"

\* a call whose child ended with status zero
Completed == pc = "done" /\ child = "exited" /\ result.returncode = 0

RECURSIVE TextLen(_)
TextLen(text) == IF text = <<>> THEN 0 ELSE CharLen(Head(text)) + TextLen(Tail(text))
IsPrefix(a, b) == Len(a) <= Len(b) /\ SubSeq(b, 1, Len(a)) = a

\* the extractor has returned to line 86
ExtractorReturned == extractions > 0 /\ ExtractRun(response_text).exc = ""

\* C5: when the extractor returned absent the outcome is ExtractionFailed
\* with at most the first 500 characters of the text; when it returned a
\* value the outcome is the schema validation's alone, the typed value or
\* SchemaMismatch, and never ExtractionFailed.
C5_Materialization ==
  Completed /\ ExtractorReturned =>
    IF parsed = PyNone
      THEN /\ KindOf(outcome) = "ExtractionFailed"
           /\ IsPrefix(outcome.text, response_text)
           /\ TextLen(outcome.text) + outcome.cut <= 500
      ELSE /\ KindOf(outcome) # "ExtractionFailed"
           /\ IF parsed.k = "obj" /\ Validates(pydantic_model, parsed.m)
                THEN outcome = Returns(Instance(pydantic_model, parsed.m))
                ELSE KindOf(outcome) = "SchemaMismatch"

\* the instances of a schema
ConformantValues(schema) ==
  {Instance(schema, d.m) : d \in {v \in DocValues : v.k = "obj" /\ Validates(schema, v.m)}}

\* C6: when the child exits with status zero and its output is the direct
\* JSON serialization of a schema-conformant value V, one with no fields
\* included, the call returns V.
C6_RoundTrip ==
  Completed =>
    \A V \in ConformantValues(pydantic_model) :
      result.stdout = Dumps(PyDict(V)) => outcome = Returns(V)

\* the extractor has returned v
ReturnedValue(v) == outcome.kind # "raise" /\ parsed = v

\* C7: for every text the extractor returns the value of the first strategy,
\* in the order whole text, tagged fenced block, generic fenced block, brace
\* span, whose candidate exists and parses; a strategy whose candidate is
\* missing or does not parse is skipped.
C7_FirstStrategyWins ==
  pc = "extracted" /\ Winners(response_text) # {} =>
    ReturnedValue(ValueOf(Least(Winners(response_text)), response_text))

\* C8: for every text the extractor raises nothing; it returns a mapping or
\* absent, and absent whenever no strategy's candidate parses.
C8_MappingOrAbsent ==
  pc = "extracted" =>
    /\ outcome.kind # "raise"
    /\ parsed = PyNone \/ parsed.k = "obj"
    /\ Winners(response_text) = {} => parsed = PyNone

\* the same letter, whatever the case
SameLetter(c, d) ==
  c = d \/ \E n \in 1..26 : {c, d} = {UpperCase[n], LowerCase[n]}
CaseEqual(a, b) ==
  Len(a) = Len(b) /\ \A i \in 1..Len(a) : SameLetter(a[i], b[i])
Occurs(kw, id) ==
  \E i \in 1..Len(id) :
    i + Len(kw) - 1 <= Len(id) /\ CaseEqual(SubSeq(id, i, i + Len(kw) - 1), kw)
Families ==
  <<[kws |-> {KwAnthropic, KwClaude}, profile |-> CLI_PROVIDERS.anthropic],
    [kws |-> {KwGoogle, KwGemini}, profile |-> CLI_PROVIDERS.google],
    [kws |-> {KwOpenai, KwGpt, KwCodex}, profile |-> CLI_PROVIDERS.openai]>>
Matching(id) == {n \in 1..3 : \E kw \in Families[n].kws : Occurs(kw, id)}
HasUpper(id) == \E i \in 1..Len(id), n \in 1..26 : id[i] = UpperCase[n]

\* C9: get_cli_config returns the profile of the first family, in the order
\* Claude, Gemini, Codex, one of whose keywords occurs in the identifier
\* whatever the case of its letters, and the default profile when none
\* does; the same profile for identifiers that differ only in case.
C9_ResolverFirstMatch ==
  pc = "resolved" =>
    /\ cli_config = (IF Matching(model_provider) = {} THEN CLI_PROVIDERS.default
                     ELSE Families[Least(Matching(model_provider))].profile)
    /\ \A other \in Identifiers :
         CaseEqual(other, model_provider) => get_cli_config(other) = cli_config
C9_Witness ==
  /\ pc = "resolved"
  /\ HasUpper(model_provider)
  /\ Matching(model_provider) = {2, 3}
  /\ cli_config = CLI_PROVIDERS.google
  /\ \E other \in Identifiers : other # model_provider /\ CaseEqual(other, model_provider)

\* C10: a child that exits with a non-zero status gives ExecutionFailed with
\* its standard error, whatever its standard output holds, and no extraction
\* runs; the extractor runs only on the whole output of a child that has
\* ended with status zero.
C10_ExitStatusFirst ==
  /\ pc = "done" /\ child = "exited" /\ result.returncode # 0 =>
       /\ KindOf(outcome) = "ExecutionFailed"
       /\ outcome.text = result.stderr
       /\ extractions = 0
  /\ pc = "extract" \/ extractions > 0 =>
       /\ child = "exited"
       /\ result.returncode = 0
       /\ response_text = Strip(result.stdout)
C10_Witness ==
  /\ pc = "done" /\ child = "exited" /\ result.returncode # 0
  /\ pydantic_model = SchemaReqInt
  /\ result.stdout = Dumps(PyDict({<<"a", PyInt(1)>>}))
  /\ result.stderr # <<>>
  /\ KindOf(outcome) = "ExecutionFailed"

====
